---- MODULE Spec2Model ----
(***************************************************************************)
(* Model of the Binance Testnet trading bot: the TradingBot API wrapper    *)
(* (src/bot.py) and the CLI menu loop that drives it (src/main.py).        *)
(*                                                                         *)
(* Text is a sequence of one-character strings.  Python values are tagged  *)
(* records; a dict is an insertion-ordered sequence of <<key, value>>      *)
(* pairs, as CPython keeps it.  An operator that models Python code which  *)
(* can raise evaluates to Raise(exception) in place of a value.            *)
(***************************************************************************)
EXTENDS Integers, Sequences, FiniteSets, TLC

VARIABLES pc, choice, bot, symbol, quantity, price, order_id, confirm,
          current_price, inp, op, nreq, nops

vars == <<pc, choice, bot, symbol, quantity, price, order_id, confirm,
          current_price, inp, op, nreq, nops>>

(***************************************************************************)
(* Bounds of the model.                                                    *)
(***************************************************************************)
\* Operations (HTTP round trips) the run may perform, the startup ping included.
MaxRequests == 3
\* time.time() * 1000 is drawn from 1..MaxTime at every signed request.
MaxTime == 2

(***************************************************************************)
(* Python values.                                                          *)
(***************************************************************************)
None == [k |-> "None"]
PyBool(b) == [k |-> "bool", b |-> b]
PyInt(neg, n) == [k |-> "int", neg |-> neg /\ n # 0, n |-> n]
\* A float is (-1)^neg * n / 10^e with e minimal; -0.0 keeps its sign.
PyFloat(neg, n, e) == [k |-> "float", neg |-> neg, n |-> n, e |-> e]
PyStr(s) == [k |-> "str", s |-> s]
PyList(items) == [k |-> "list", items |-> items]
PyDict(items) == [k |-> "dict", items |-> items]
Raise(exc) == [k |-> "raise", exc |-> exc]
Raised(v) == v.k = "raise"

\* bool(v): the truth value Python's `if v` and `v or d` use.
Truthy(v) ==
    CASE v.k = "None" -> FALSE
      [] v.k = "bool" -> v.b
      [] v.k = "int" -> v.n # 0
      [] v.k = "float" -> v.n # 0
      [] v.k = "str" -> v.s # <<>>
      [] v.k = "hexdigest" -> TRUE
      [] v.k = "list" -> v.items # <<>>
      [] v.k = "dict" -> v.items # <<>>

Keys(d) == [i \in 1..Len(d.items) |-> d.items[i][1]]
HasKey(d, key) == \E i \in 1..Len(d.items) : d.items[i][1] = key
DictGet(d, key) == d.items[CHOOSE i \in 1..Len(d.items) : d.items[i][1] = key][2]
\* d[key] = val: an existing key keeps its position, a new key goes last.
DictSet(d, key, val) ==
    IF HasKey(d, key)
    THEN PyDict([i \in 1..Len(d.items) |->
                    IF d.items[i][1] = key THEN <<key, val>> ELSE d.items[i]])
    ELSE PyDict(Append(d.items, <<key, val>>))
CountKey(d, key) == Cardinality({i \in 1..Len(d.items) : d.items[i][1] = key})

(***************************************************************************)
(* Text: case mapping, whitespace, digits.                                 *)
(***************************************************************************)
UpperLetters == <<"A","B","C","D","E","F","G","H","I","J","K","L","M",
                  "N","O","P","Q","R","S","T","U","V","W","X","Y","Z">>
LowerLetters == <<"a","b","c","d","e","f","g","h","i","j","k","l","m",
                  "n","o","p","q","r","s","t","u","v","w","x","y","z">>
IndexIn(c, letters) == CHOOSE i \in 1..Len(letters) : letters[i] = c
IsIn(c, letters) == \E i \in 1..Len(letters) : letters[i] = c
UpperChar(c) == IF IsIn(c, LowerLetters) THEN UpperLetters[IndexIn(c, LowerLetters)] ELSE c
LowerChar(c) == IF IsIn(c, UpperLetters) THEN LowerLetters[IndexIn(c, UpperLetters)] ELSE c
\* str.upper() and str.lower()
Upper(s) == [i \in 1..Len(s) |-> UpperChar(s[i])]
Lower(s) == [i \in 1..Len(s) |-> LowerChar(s[i])]

DigitChars == <<"0","1","2","3","4","5","6","7","8","9">>
IsDigit(c) == IsIn(c, DigitChars)
DigitVal(c) == IndexIn(c, DigitChars) - 1
AllDigits(s) == \A i \in 1..Len(s) : IsDigit(s[i])

RECURSIVE DigitsToNat(_)
DigitsToNat(s) ==
    IF s = <<>> THEN 0
    ELSE 10 * DigitsToNat(SubSeq(s, 1, Len(s) - 1)) + DigitVal(s[Len(s)])

RECURSIVE NatToDigits(_)
NatToDigits(n) ==
    IF n < 10 THEN <<DigitChars[n + 1]>>
    ELSE NatToDigits(n \div 10) \o <<DigitChars[(n % 10) + 1]>>

RECURSIVE Pow10(_)
Pow10(e) == IF e = 0 THEN 1 ELSE 10 * Pow10(e - 1)

RECURSIVE LStrip(_)
LStrip(s) == IF s # <<>> /\ s[1] = " " THEN LStrip(Tail(s)) ELSE s
RECURSIVE RStrip(_)
RStrip(s) == IF s # <<>> /\ s[Len(s)] = " " THEN RStrip(SubSeq(s, 1, Len(s) - 1)) ELSE s
Strip(s) == RStrip(LStrip(s))

\* The text after an optional leading sign.
Unsigned(s) == IF s # <<>> /\ s[1] \in {"-", "+"} THEN Tail(s) ELSE s
IsNegative(s) == s # <<>> /\ s[1] = "-"

RECURSIVE Normal(_, _, _)
Normal(neg, n, e) ==
    IF e > 0 /\ n % 10 = 0 THEN Normal(neg, n \div 10, e - 1) ELSE PyFloat(neg, n, e)

(***************************************************************************)
(* float(text) for decimal literals: optional surrounding blanks, optional *)
(* sign, digits with at most one point and at least one digit.  Anything   *)
(* else raises ValueError (exponents, inf, nan and digit-group underscores *)
(* are never typed in this model).                                         *)
(***************************************************************************)
DecimalOf(neg, ip, fp) ==
    IF AllDigits(ip) /\ AllDigits(fp) /\ Len(ip) + Len(fp) >= 1
    THEN Normal(neg, DigitsToNat(ip \o fp), Len(fp))
    ELSE Raise("ValueError")

\* The position of the first point of t, Len(t) + 1 when it has none.
PointOf(t) ==
    IF \E i \in 1..Len(t) : t[i] = "."
    THEN CHOOSE i \in 1..Len(t) : t[i] = "." /\ \A j \in 1..(i - 1) : t[j] # "."
    ELSE Len(t) + 1

SplitAt(neg, t, dot) == DecimalOf(neg, SubSeq(t, 1, dot - 1), SubSeq(t, dot + 1, Len(t)))

ParseStripped(t) == SplitAt(IsNegative(t), Unsigned(t), PointOf(Unsigned(t)))

ParseFloat(text) == ParseStripped(Strip(text))

\* int(text): optional surrounding blanks, optional sign, at least one digit.
IntOf(neg, t) ==
    IF t # <<>> /\ AllDigits(t) THEN PyInt(neg, DigitsToNat(t)) ELSE Raise("ValueError")

ParseIntStripped(t) == IntOf(IsNegative(t), Unsigned(t))

ParseInt(text) == ParseIntStripped(Strip(text))

\* float(v) of a Python value, as get_account_balance and get_current_price apply it.
ToFloat(v) ==
    CASE Raised(v) -> v
      [] v.k = "str" -> ParseFloat(v.s)
      [] v.k = "float" -> v
      [] v.k = "int" -> PyFloat(v.neg, v.n, 0)
      [] v.k = "bool" -> PyFloat(FALSE, IF v.b THEN 1 ELSE 0, 0)
      [] OTHER -> Raise("TypeError")

\* v > 0 for a float
Positive(v) == v.n > 0 /\ ~v.neg

RECURSIVE ZeroPad(_, _)
ZeroPad(s, width) == IF Len(s) >= width THEN s ELSE ZeroPad(<<"0">> \o s, width)

\* repr(float).  With the digits of the value written 0.d1d2.. * 10^decpt, the
\* fixed notation is used for -3 <= decpt <= 16 and the exponent notation
\* d1.d2..e+XX outside it.
RECURSIVE StripZeros(_)
StripZeros(n) == IF n # 0 /\ n % 10 = 0 THEN StripZeros(n \div 10) ELSE n

DecPt(v) == Len(NatToDigits(v.n)) - v.e

Fixed(v) ==
    NatToDigits(v.n \div Pow10(v.e)) \o <<".">>
    \o (IF v.e = 0 THEN <<"0">> ELSE ZeroPad(NatToDigits(v.n % Pow10(v.e)), v.e))

Mantissa(d) == IF Len(d) = 1 THEN d ELSE <<d[1], ".">> \o Tail(d)

Exponent(x) ==
    IF x < 0 THEN <<"e", "-">> \o ZeroPad(NatToDigits(0 - x), 2)
    ELSE <<"e", "+">> \o ZeroPad(NatToDigits(x), 2)

Scientific(v) == Mantissa(NatToDigits(StripZeros(v.n))) \o Exponent(DecPt(v) - 1)

FloatRepr(v) ==
    (IF v.neg THEN <<"-">> ELSE <<>>)
    \o (IF v.n # 0 /\ (DecPt(v) < -3 \/ DecPt(v) > 16) THEN Scientific(v) ELSE Fixed(v))

\* str(v) of a scalar, as urlencode applies it to a parameter value.
Str(v) ==
    CASE v.k = "str" -> v.s
      [] v.k = "int" -> (IF v.neg THEN <<"-">> ELSE <<>>) \o NatToDigits(v.n)
      [] v.k = "float" -> FloatRepr(v)
      [] v.k = "bool" -> IF v.b THEN <<"T","r","u","e">> ELSE <<"F","a","l","s","e">>
      [] v.k = "None" -> <<"N","o","n","e">>

(***************************************************************************)
(* urllib.parse.urlencode and the HMAC signature.                          *)
(***************************************************************************)
Unreserved == {"_", ".", "-", "~"}
\* The printable ASCII characters by code: 32 to 95, and 97 to 126 (the text of
\* this model holds no grave accent, code 96).
AsciiFrom32 == <<" ","!","\"","#","$","%","&","'","(",")","*","+",",","-",".","/",
                 "0","1","2","3","4","5","6","7","8","9",":",";","<","=",">","?",
                 "@","A","B","C","D","E","F","G","H","I","J","K","L","M","N","O",
                 "P","Q","R","S","T","U","V","W","X","Y","Z","[","\\","]","^","_">>
AsciiFrom97 == <<"a","b","c","d","e","f","g","h","i","j","k","l","m","n","o",
                 "p","q","r","s","t","u","v","w","x","y","z","{","|","}","~">>
HexDigits == <<"0","1","2","3","4","5","6","7","8","9","A","B","C","D","E","F">>
Ord(c) == IF IsIn(c, AsciiFrom32) THEN IndexIn(c, AsciiFrom32) + 31
          ELSE IndexIn(c, AsciiFrom97) + 96
PercentEncoded(code) == <<"%", HexDigits[(code \div 16) + 1], HexDigits[(code % 16) + 1]>>

\* quote_plus of one character (text is printable ASCII)
QuoteChar(c) ==
    IF IsDigit(c) \/ IsIn(c, UpperLetters) \/ IsIn(c, LowerLetters) \/ c \in Unreserved
    THEN <<c>>
    ELSE IF c = " " THEN <<"+">> ELSE PercentEncoded(Ord(c))

RECURSIVE QuotePlus(_)
QuotePlus(s) == IF s = <<>> THEN <<>> ELSE QuoteChar(s[1]) \o QuotePlus(Tail(s))

\* The parameter names are the fixed identifiers of bot.py; quoting leaves them as
\* they are, and each stands in the query string as one token.  So does a hex
\* digest, whose 64 characters are all unreserved.
QuoteValue(v) == IF v.k = "hexdigest" THEN <<v>> ELSE QuotePlus(Str(v))

RECURSIVE UrlencodeItems(_)
UrlencodeItems(items) ==
    IF items = <<>> THEN <<>>
    ELSE (IF Len(items) > 1 THEN UrlencodeItems(SubSeq(items, 1, Len(items) - 1)) \o <<"&">>
          ELSE <<>>)
         \o <<items[Len(items)][1], "=">> \o QuoteValue(items[Len(items)][2])

Urlencode(params) == UrlencodeItems(params.items)

\* hmac.new(key, msg, sha256).hexdigest(): an ideal keyed hash, equal exactly
\* when key and message are equal.
Hmac(key, msg) == [k |-> "hexdigest", key |-> key, msg |-> msg]

_generate_signature(self, params) == Hmac(self.api_secret, Urlencode(params))

(***************************************************************************)
(* Python operations on a parsed JSON value.                               *)
(***************************************************************************)
\* A dict key as a str value (what iterating a dict yields).
KeyStr(key) == PyStr(<<key>>)

\* v[key] for a str key
Subscript(v, key) ==
    CASE v.k = "dict" -> IF HasKey(v, key) THEN DictGet(v, key) ELSE Raise("KeyError")
      [] OTHER -> Raise("TypeError")

\* key in v (v is no str in this model: no JSON body is a bare string)
Contains(key, v) ==
    CASE v.k = "dict" -> PyBool(HasKey(v, key))
      [] v.k = "list" -> PyBool(\E i \in 1..Len(v.items) : v.items[i] = KeyStr(key))
      [] OTHER -> Raise("TypeError")

\* v.get(key)
Get(v, key) ==
    CASE v.k = "dict" -> IF HasKey(v, key) THEN DictGet(v, key) ELSE None
      [] OTHER -> Raise("AttributeError")

\* len(v)
PyLen(v) ==
    CASE v.k \in {"dict", "list"} -> PyInt(FALSE, Len(v.items))
      [] v.k = "str" -> PyInt(FALSE, Len(v.s))
      [] OTHER -> Raise("TypeError")

\* The values `for x in v` yields, or the TypeError of a value that is not iterable.
Iterate(v) ==
    CASE v.k = "list" -> v
      [] v.k = "dict" -> PyList([i \in 1..Len(v.items) |-> KeyStr(v.items[i][1])])
      [] v.k = "str" -> PyList([i \in 1..Len(v.s) |-> PyStr(<<v.s[i]>>)])
      [] OTHER -> Raise("TypeError")

\* The first raised value among vs, or None when none is raised.
RECURSIVE FirstRaise(_)
FirstRaise(vs) ==
    IF vs = <<>> THEN None
    ELSE IF Raised(vs[1]) THEN vs[1] ELSE FirstRaise(Tail(vs))

(***************************************************************************)
(* The exchange as the transport shows it: an exception before any HTTP    *)
(* response, or a response with a status code and a body text.             *)
(***************************************************************************)
T_BALANCES == "{\"balances\":[{\"asset\":\"BTC\",\"free\":\"1.0\",\"locked\":\"0\"},{\"asset\":\"ETH\",\"free\":\"0\",\"locked\":\"0\"}]}"
T_NOLOCKED == "{\"balances\":[{\"asset\":\"BTC\",\"free\":\"1\"}]}"
T_PRICE == "{\"price\":\"65000.50\"}"
T_ERROR == "{\"code\":-1121,\"msg\":\"Invalid symbol.\"}"
T_ORDER == "{\"orderId\":7,\"status\":\"FILLED\",\"executedQty\":\"1.5\"}"
T_ORDERS == "[{\"orderId\":7,\"side\":\"BUY\",\"type\":\"LIMIT\",\"price\":\"10\",\"origQty\":\"2\"}]"
T_EMPTYLIST == "[]"
T_EMPTYDICT == "{}"
T_NUMBER == "5"
T_HTML == "<html>"

Texts == {T_BALANCES, T_NOLOCKED, T_PRICE, T_ERROR, T_ORDER, T_ORDERS,
          T_EMPTYLIST, T_EMPTYDICT, T_NUMBER, T_HTML}
StatusCodes == {200, 400}
ConnectionFailure == [kind |-> "exception", exc |-> "ConnectionError"]
Response(status_code, text) ==
    [kind |-> "response", status_code |-> status_code, text |-> text]
\* The body of a response that is not 200 is only logged: two bodies stand for it.
Outcomes == {ConnectionFailure}
            \cup {Response(200, t) : t \in Texts}
            \cup {Response(sc, t) : sc \in StatusCodes \ {200}, t \in {T_ERROR, T_HTML}}

\* response.json()
ResponseJson(text) ==
    CASE text = T_BALANCES ->
            PyDict(<< <<"balances", PyList(<<
                PyDict(<< <<"asset", PyStr(<<"B","T","C">>)>>,
                          <<"free", PyStr(<<"1",".","0">>)>>,
                          <<"locked", PyStr(<<"0">>)>> >>),
                PyDict(<< <<"asset", PyStr(<<"E","T","H">>)>>,
                          <<"free", PyStr(<<"0">>)>>,
                          <<"locked", PyStr(<<"0">>)>> >>) >>)>> >>)
      [] text = T_NOLOCKED ->
            PyDict(<< <<"balances", PyList(<<
                PyDict(<< <<"asset", PyStr(<<"B","T","C">>)>>,
                          <<"free", PyStr(<<"1">>)>> >>) >>)>> >>)
      [] text = T_PRICE ->
            PyDict(<< <<"price", PyStr(<<"6","5","0","0","0",".","5","0">>)>> >>)
      [] text = T_ERROR ->
            PyDict(<< <<"code", PyInt(TRUE, 1121)>>,
                      <<"msg", PyStr(<<"I","n","v","a","l","i","d"," ",
                                       "s","y","m","b","o","l",".">>)>> >>)
      [] text = T_ORDER ->
            PyDict(<< <<"orderId", PyInt(FALSE, 7)>>,
                      <<"status", PyStr(<<"F","I","L","L","E","D">>)>>,
                      <<"executedQty", PyStr(<<"1",".","5">>)>> >>)
      [] text = T_ORDERS ->
            PyList(<< PyDict(<< <<"orderId", PyInt(FALSE, 7)>>,
                                <<"side", PyStr(<<"B","U","Y">>)>>,
                                <<"type", PyStr(<<"L","I","M","I","T">>)>>,
                                <<"price", PyStr(<<"1","0">>)>>,
                                <<"origQty", PyStr(<<"2">>)>> >>) >>)
      [] text = T_EMPTYLIST -> PyList(<<>>)
      [] text = T_EMPTYDICT -> PyDict(<<>>)
      [] text = T_NUMBER -> PyInt(FALSE, 5)
      [] text = T_HTML -> Raise("JSONDecodeError")

\* One logger call.
Log(lvl, msg, args) == [lvl |-> lvl, msg |-> msg, args |-> args]

(***************************************************************************)
(* config: the values TradingBot and the CLI read from the config module.  *)
(***************************************************************************)
API_KEY == "test-api-key"
API_SECRET == "test-api-secret"
BASE_URL == "https://testnet.binance.vision"
DEFAULT_SYMBOL == PyStr(<<"B","T","C","U","S","D","T">>)
DEFAULT_QUANTITY == PyFloat(FALSE, 1, 3)

(***************************************************************************)
(* TradingBot (src/bot.py).  Every method evaluates to a record:           *)
(*   ret        what the method returns to its caller, or Raise(..)        *)
(*   log        the logger calls it made, in order                         *)
(*   sent       the HTTP requests it handed to the requests library        *)
(*   signedMsg  the parameter mappings it passed to _generate_signature    *)
(*   self       the object's fields when it returns                        *)
(***************************************************************************)
Methods == {"GET", "POST", "DELETE"}

\* Catch with the handler left out: the exception reaches the caller.
CatchNothing(res, msg) == res

\* except Exception as e: logger.error(f"<msg>: {e}"); return None
Catch(res, msg) ==
    IF Raised(res.ret)
    THEN [res EXCEPT !.ret = None,
                     !.log = Append(@, Log("error", msg, <<PyStr(<<res.ret.exc>>)>>))]
    ELSE res

\* if signed: params['timestamp'] = ...; params['signature'] = ...
Signed(self, stamped) ==
    [params |-> DictSet(stamped, "signature", _generate_signature(self, stamped)),
     signedMsg |-> <<stamped>>]

\* SignParams with the two assignments in the other order: the signature is
\* taken before the timestamp is put in.
SignParamsBeforeStamp(self, params, signed, now) ==
    IF signed
    THEN [params |-> DictSet(DictSet(params, "timestamp", PyInt(FALSE, now)),
                             "signature", _generate_signature(self, params)),
          signedMsg |-> <<params>>]
    ELSE [params |-> params, signedMsg |-> <<>>]

SignParams(self, params, signed, now) ==
    IF signed
    THEN Signed(self, DictSet(params, "timestamp", PyInt(FALSE, now)))
    ELSE [params |-> params, signedMsg |-> <<>>]

\* The if/elif over method: the requests call made, none for an unknown method.
Transmit(method, url, headers, params) ==
    IF method \in Methods
    THEN << [method |-> method, url |-> url, headers |-> headers, params |-> params] >>
    ELSE <<>>

\* Classify without the status check: every response's body is parsed and returned.
ClassifyIgnoringStatus(outcome) ==
    IF outcome.kind = "exception"
    THEN [ret |-> Raise(outcome.exc), log |-> <<>>]
    ELSE [ret |-> ResponseJson(outcome.text), log |-> <<>>]

\* What follows the requests call: it raised, or the status code decides.
Classify(outcome) ==
    IF outcome.kind = "exception"
    THEN [ret |-> Raise(outcome.exc), log |-> <<>>]
    ELSE IF outcome.status_code = 200
         THEN [ret |-> ResponseJson(outcome.text), log |-> <<>>]
         ELSE [ret |-> None,
               log |-> <<Log("error", "API Error",
                             <<PyInt(FALSE, outcome.status_code),
                               PyStr(<<outcome.text>>)>>)>>]

\* The try block once the requests call is decided: no call was made (the method
\* matched no branch, so `response` is unbound), or the call's outcome.
Respond(sent, outcome) ==
    IF sent = <<>>
    THEN [ret |-> Raise("UnboundLocalError"), log |-> <<>>]
    ELSE Classify(outcome)

Answer(self, sp, sent, resp) ==
    Catch([ret |-> resp.ret, log |-> resp.log, sent |-> sent,
           signedMsg |-> sp.signedMsg, self |-> self], "Request error")

Dispatch(self, sp, sent, outcome) == Answer(self, sp, sent, Respond(sent, outcome))

\* Send with one retry after anything but HTTP 200.
SendWithRetry(self, method, url, sp, outcome) ==
    Dispatch(self, sp,
             Transmit(method, url, <<"X-MBX-APIKEY", self.api_key>>, sp.params)
             \o (IF outcome.kind = "response" /\ outcome.status_code = 200
                 THEN <<>>
                 ELSE Transmit(method, url, <<"X-MBX-APIKEY", self.api_key>>, sp.params)),
             outcome)

\* Send with the request's url stored into self.base_url.
SendKeepingUrl(self, method, url, sp, outcome) ==
    Dispatch([self EXCEPT !.base_url = url], sp,
             Transmit(method, url, <<"X-MBX-APIKEY", self.api_key>>, sp.params),
             outcome)

Send(self, method, url, sp, outcome) ==
    Dispatch(self, sp, Transmit(method, url, <<"X-MBX-APIKEY", self.api_key>>, sp.params),
             outcome)

_make_request(self, method, endpoint, params, signed, now, outcome) ==
    Send(self, method, self.base_url \o endpoint,
         SignParams(self, IF params = None THEN PyDict(<<>>) ELSE params, signed, now),
         outcome)

\* The record of a public method, from its _make_request call r and its own body;
\* an exception out of _make_request would pass through the body to the handler.
Result(name, r, outcome, body) ==
    [name |-> name, outcome |-> outcome, data |-> r.ret,
     ret |-> IF Raised(r.ret) THEN r.ret ELSE body.ret,
     log |-> IF Raised(r.ret) THEN r.log ELSE body.log,
     sent |-> r.sent, signedMsg |-> r.signedMsg, self |-> r.self]

\* PingResult without the try/except around the request.
PingResultUncaught(outcome) ==
    IF outcome.kind = "exception"
    THEN [ret |-> Raise(outcome.exc), log |-> <<>>]
    ELSE IF outcome.status_code = 200
         THEN [ret |-> PyBool(TRUE),
               log |-> <<Log("info", "Successfully connected", <<>>)>>]
         ELSE [ret |-> PyBool(FALSE),
               log |-> <<Log("error", "Connection failed", <<PyStr(<<outcome.text>>)>>)>>]

\* try: requests.get(ping) ... except Exception: return False
PingResult(outcome) ==
    IF outcome.kind = "exception"
    THEN [ret |-> PyBool(FALSE),
          log |-> <<Log("error", "Connection error", <<PyStr(<<outcome.exc>>)>>)>>]
    ELSE IF outcome.status_code = 200
         THEN [ret |-> PyBool(TRUE),
               log |-> <<Log("info", "Successfully connected", <<>>)>>]
         ELSE [ret |-> PyBool(FALSE),
               log |-> <<Log("error", "Connection failed", <<PyStr(<<outcome.text>>)>>)>>]

TestConnectionRecord(self, outcome, body) ==
    [name |-> "_test_connection", outcome |-> outcome, data |-> None,
     ret |-> body.ret, log |-> body.log,
     sent |-> << [method |-> "GET", url |-> self.base_url \o "/api/v3/ping",
                  headers |-> <<>>, params |-> PyDict(<<>>)] >>,
     signedMsg |-> <<>>, self |-> self]

_test_connection(self, outcome) == TestConnectionRecord(self, outcome, PingResult(outcome))

\* __init__: the fields from config, two log lines, then the connection test,
\* whose result __init__ does not read.
Construct(self, t) ==
    [t EXCEPT !.log = <<Log("info", "Trading Bot initialized successfully", <<>>),
                        Log("info", "Using Binance Testnet", <<PyStr(<<self.base_url>>)>>)>>
                       \o @]

TradingBotWith(self, outcome) == Construct(self, _test_connection(self, outcome))

TradingBot(outcome) ==
    TradingBotWith([api_key |-> API_KEY, api_secret |-> API_SECRET,
                    base_url |-> BASE_URL], outcome)

\* One balance of the loop: the first exception of its body, or its log line
\* (written when free > 0 or locked > 0).
BalanceShown(free, locked) == Positive(free) \/ Positive(locked)

BalanceStep(balance, free, locked, log) ==
    IF Raised(free) THEN [ret |-> free, log |-> log]
    ELSE IF Raised(locked) THEN [ret |-> locked, log |-> log]
    ELSE IF ~BalanceShown(free, locked) THEN [ret |-> None, log |-> log]
    ELSE IF Raised(Subscript(balance, "asset"))
         THEN [ret |-> Subscript(balance, "asset"), log |-> log]
         ELSE [ret |-> None,
               log |-> Append(log, Log("info", "balance",
                                       <<Subscript(balance, "asset"), free, locked>>))]

\* The for loop of get_account_balance over the balances.
RECURSIVE BalanceLoop(_, _)
BalanceLoopNext(items, step) ==
    IF Raised(step.ret) THEN step ELSE BalanceLoop(Tail(items), step.log)

BalanceLoop(items, log) ==
    IF items = <<>> THEN [ret |-> None, log |-> log]
    ELSE BalanceLoopNext(items,
             BalanceStep(items[1],
                         ToFloat(Subscript(items[1], "free")),
                         ToFloat(Subscript(items[1], "locked")), log))

\* `data and key in data`
HasField(data, key) == IF Truthy(data) THEN Contains(key, data) ELSE PyBool(FALSE)

\* for x in seq: <loop>, then return value
LoopThenReturn(loop, value) ==
    IF Raised(loop.ret) THEN loop ELSE [ret |-> value, log |-> loop.log]

BalancesOf(each, balances, log) ==
    IF Raised(each) THEN [ret |-> each, log |-> log]
    ELSE LoopThenReturn(BalanceLoop(each.items, log), balances)

BalanceBody(data, has, log) ==
    IF Raised(has) THEN [ret |-> has, log |-> log]
    ELSE IF has.b
    THEN BalancesOf(Iterate(Subscript(data, "balances")), Subscript(data, "balances"),
                    Append(log, Log("info", "=== Account Balances ===", <<>>)))
    ELSE [ret |-> None, log |-> Append(log, Log("error", "Failed to get balance", <<>>))]

BalanceOf(r, outcome) ==
    Catch(Result("get_account_balance", r, outcome,
                 BalanceBody(r.ret, HasField(r.ret, "balances"),
                             <<Log("info", "=== Fetching Account Balance ===", <<>>)>>
                             \o r.log)),
          "Error getting balance")

get_account_balance(self, now, outcome) ==
    BalanceOf(_make_request(self, "GET", "/api/v3/account", None, TRUE, now, outcome),
              outcome)

PriceFound(sym, p, log) ==
    IF Raised(p) THEN [ret |-> p, log |-> log]
    ELSE [ret |-> p, log |-> Append(log, Log("info", "Current price", <<sym, p>>))]

PriceBody(sym, data, has, log) ==
    IF Raised(has) THEN [ret |-> has, log |-> log]
    ELSE IF has.b
    THEN PriceFound(sym, ToFloat(Subscript(data, "price")), log)
    ELSE [ret |-> None, log |-> Append(log, Log("error", "Failed to get price", <<sym>>))]

PriceOf(sym, r, outcome) ==
    Catch(Result("get_current_price", r, outcome,
                 PriceBody(sym, r.ret, HasField(r.ret, "price"), r.log)),
          "Error getting price")

\* get_current_price calling _make_request with signed=True.
get_current_price_signed(self, sym, now, outcome) ==
    PriceOf(sym,
            _make_request(self, "GET", "/api/v3/ticker/price",
                        PyDict(<< <<"symbol", sym>> >>), TRUE, now, outcome),
            outcome)

get_current_price(self, sym, now, outcome) ==
    PriceOf(sym,
            _make_request(self, "GET", "/api/v3/ticker/price",
                        PyDict(<< <<"symbol", sym>> >>), FALSE, now, outcome),
            outcome)

\* The logger calls of a placed order: data.get(field) for each field.
RECURSIVE LogFields(_, _, _)
LogField(data, fields, log, v) ==
    IF Raised(v) THEN [ret |-> v, log |-> log]
    ELSE LogFields(data, Tail(fields), Append(log, Log("info", fields[1], <<v>>)))

LogFields(data, fields, log) ==
    IF fields = <<>> THEN [ret |-> data, log |-> log]
    ELSE LogField(data, fields, log, Get(data, fields[1]))

MarketBody(data, log) ==
    IF Truthy(data)
    THEN LogFields(data, <<"orderId", "status", "executedQty">>,
                   Append(log, Log("info", "Order placed successfully!", <<>>)))
    ELSE [ret |-> None, log |-> Append(log, Log("error", "Failed to place order", <<>>))]

MarketOf(sym, side, qty, r, outcome) ==
    Catch(Result("place_market_order", r, outcome,
                 MarketBody(r.ret, <<Log("info", "=== Placing Market Order ===", <<side>>),
                                     Log("info", "Symbol", <<sym>>),
                                     Log("info", "Quantity", <<qty>>)>> \o r.log)),
          "Error placing order")

place_market_order(self, sym, side, qty, now, outcome) ==
    MarketOf(sym, side, qty,
             _make_request(self, "POST", "/api/v3/order",
                         PyDict(<< <<"symbol", sym>>, <<"side", side>>,
                                   <<"type", PyStr(<<"M","A","R","K","E","T">>)>>,
                                   <<"quantity", qty>> >>),
                         TRUE, now, outcome),
             outcome)

\* f"{price:,.2f}": a number formats; a str refuses the format code with a
\* ValueError, any other value has no __format__ for it and raises TypeError.
FormatPrice(v) ==
    CASE v.k \in {"float", "int", "bool"} -> None
      [] v.k \in {"str", "hexdigest"} -> Raise("ValueError")
      [] OTHER -> Raise("TypeError")

LimitBody(data, log) ==
    IF Truthy(data)
    THEN LogFields(data, <<"orderId", "status">>,
                   Append(log, Log("info", "Limit order placed successfully!", <<>>)))
    ELSE [ret |-> None, log |-> Append(log, Log("error", "Failed to place limit order", <<>>))]

LimitOf(sym, side, qty, prc, r, outcome) ==
    Catch(Result("place_limit_order", r, outcome,
                 LimitBody(r.ret, <<Log("info", "=== Placing Limit Order ===", <<side>>),
                                    Log("info", "Symbol", <<sym>>),
                                    Log("info", "Quantity", <<qty>>),
                                    Log("info", "Price", <<prc>>)>> \o r.log)),
          "Error placing limit order")

place_limit_order(self, sym, side, qty, prc, now, outcome) ==
    IF Raised(FormatPrice(prc))
    THEN Catch([name |-> "place_limit_order", outcome |-> outcome, data |-> None,
                ret |-> FormatPrice(prc),
                log |-> <<Log("info", "=== Placing Limit Order ===", <<side>>),
                          Log("info", "Symbol", <<sym>>),
                          Log("info", "Quantity", <<qty>>)>>,
                sent |-> <<>>, signedMsg |-> <<>>, self |-> self],
               "Error placing limit order")
    ELSE LimitOf(sym, side, qty, prc,
                 _make_request(self, "POST", "/api/v3/order",
                             PyDict(<< <<"symbol", sym>>, <<"side", side>>,
                                       <<"type", PyStr(<<"L","I","M","I","T">>)>>,
                                       <<"timeInForce", PyStr(<<"G","T","C">>)>>,
                                       <<"quantity", qty>>, <<"price", prc>> >>),
                             TRUE, now, outcome),
                 outcome)

\* One logger.info call of the loop body: its f-string reads order[field] for
\* each field in turn, and the call is made when none of them raised.
OrderLine(order, msg, fields, log) ==
    IF Raised(FirstRaise([i \in 1..Len(fields) |-> Subscript(order, fields[i])]))
    THEN [ret |-> FirstRaise([i \in 1..Len(fields) |-> Subscript(order, fields[i])]),
          log |-> log]
    ELSE [ret |-> None,
          log |-> Append(log, Log("info", msg,
                                  [i \in 1..Len(fields) |-> Subscript(order, fields[i])]))]

\* The four logger.info calls of the loop body, the first that raises ending it.
OrderLines ==
    << <<"Order ID", <<"orderId">> >>,
       <<"Side, Type", <<"side", "type">> >>,
       <<"Price, Qty", <<"price", "origQty">> >>,
       <<"---", <<>> >> >>

RECURSIVE OrderStep(_, _, _)
OrderStepNext(order, lines, line) ==
    IF Raised(line.ret) THEN line ELSE OrderStep(order, Tail(lines), line.log)

OrderStep(order, lines, log) ==
    IF lines = <<>> THEN [ret |-> None, log |-> log]
    ELSE OrderStepNext(order, lines, OrderLine(order, lines[1][1], lines[1][2], log))

\* The for loop of get_open_orders over the orders.
RECURSIVE OrderLoop(_, _)
OrderLoopNext(items, step) ==
    IF Raised(step.ret) THEN step ELSE OrderLoop(Tail(items), step.log)

OrderLoop(items, log) ==
    IF items = <<>> THEN [ret |-> None, log |-> log]
    ELSE OrderLoopNext(items, OrderStep(items[1], OrderLines, log))

OrdersOf(each, data, log) ==
    IF Raised(each) THEN [ret |-> each, log |-> log]
    ELSE LoopThenReturn(OrderLoop(each.items, log), data)

OpenOrdersBody(sym, data, n, log) ==
    IF data = None
    THEN [ret |-> None, log |-> Append(log, Log("error", "Failed to get open orders", <<>>))]
    ELSE IF Raised(n) THEN [ret |-> n, log |-> log]
    ELSE IF n.n > 0
    THEN OrdersOf(Iterate(data), data,
                  Append(log, Log("info", "=== Open Orders ===", <<sym>>)))
    ELSE [ret |-> data, log |-> Append(log, Log("info", "No open orders", <<sym>>))]

OpenOrdersOf(sym, r, outcome) ==
    Catch(Result("get_open_orders", r, outcome,
                 OpenOrdersBody(sym, r.ret, IF r.ret = None THEN None ELSE PyLen(r.ret),
                                r.log)),
          "Error getting open orders")

get_open_orders(self, sym, now, outcome) ==
    OpenOrdersOf(sym,
                 _make_request(self, "GET", "/api/v3/openOrders",
                             PyDict(<< <<"symbol", sym>> >>), TRUE, now, outcome),
                 outcome)

CancelBody(oid, data, log) ==
    IF Truthy(data)
    THEN [ret |-> data,
          log |-> Append(log, Log("info", "Order cancelled successfully", <<oid>>))]
    ELSE [ret |-> None,
          log |-> Append(log, Log("error", "Failed to cancel order", <<oid>>))]

CancelOf(oid, r, outcome) ==
    Catch(Result("cancel_order", r, outcome, CancelBody(oid, r.ret, r.log)),
          "Error cancelling order")

cancel_order(self, sym, oid, now, outcome) ==
    CancelOf(oid,
             _make_request(self, "DELETE", "/api/v3/order",
                         PyDict(<< <<"symbol", sym>>, <<"orderId", oid>> >>),
                         TRUE, now, outcome),
             outcome)

(***************************************************************************)
(* The CLI (src/main.py).  A step runs from one input() to the next; pc    *)
(* names the prompt the process is blocked at:                             *)
(*   start   main() entered, TradingBot() not yet called                   *)
(*   menu    "Enter your choice (1-9): "                                   *)
(*   symbol  "Enter symbol (default: ...): "                               *)
(*   qty     "Enter quantity (default: ...): "   (get_valid_input, float)  *)
(*   price   "Enter limit price: "               (get_valid_input, float)  *)
(*   oid     "Enter Order ID to cancel: "        (get_valid_input, int)    *)
(*   confirm "Confirm ...? (yes/no): "                                     *)
(*   pause   "Press Enter to continue..."                                  *)
(*   exited  sys.exit(0) of choice 9                                       *)
(*   init_failed / crashed   an exception left TradingBot() / a method     *)
(* inp is the prompt answered and the text typed by the latest step, op    *)
(* the record of the TradingBot method it ran (NoOp when it ran none);     *)
(* nreq counts the HTTP requests made, nops the ExchangeClient operations  *)
(* invoked.  print() output is not modelled.                               *)
(***************************************************************************)
Unbound == [k |-> "unbound"]
NoOp == [name |-> "none", sent |-> <<>>, signedMsg |-> <<>>]
NoInput == [prompt |-> "none", text |-> <<>>]
Typed(prompt, text) == [prompt |-> prompt, text |-> text]

BUY == PyStr(<<"B","U","Y">>)
SELL == PyStr(<<"S","E","L","L">>)

\* What the user may type at each prompt.
Choices == {"1", "2", "3", "4", "5", "6", "7", "8", "9", "0"}
SymbolEntries == { <<>>, <<"a"," ","&">> }
QuantityEntries == { <<>>, <<"0">>, <<"1",".","5","0">>, <<" ","2">>, <<"x">> }
PriceEntries == { <<>>, <<"1","0">>, <<"-","0">>, <<"1",".">> , <<"y","e","s">> }
OrderIdEntries == { <<>>, <<"7">>, <<"-","3">>, <<"1",".","5">> }
ConfirmEntries == { <<"y","e","s">>, <<"Y","E","S">>, <<"n","o">>, <<"y">>,
                    <<" ","y","e","s">> }
Times == 1..MaxTime

\* IsConfirmed testing for anything but 'no'.
IsNotRefused(answer) == Lower(answer) # <<"n","o">>

\* confirm.lower() == 'yes'
IsConfirmed(answer) == Lower(answer) = <<"y","e","s">>

\* symbol = input(...).upper(); if not symbol: symbol = config.DEFAULT_SYMBOL
ReadSymbol(text) == IF Upper(text) = <<>> THEN DEFAULT_SYMBOL ELSE PyStr(Upper(text))

\* One pass of get_valid_input's loop over the entry typed: the value it returns,
\* or the ValueError after which it prints "Invalid input" and asks again.
get_valid_input(text, input_type) ==
    CASE input_type = "float" -> ParseFloat(text)
      [] input_type = "int" -> ParseInt(text)
      [] OTHER -> PyStr(text)

\* v or config.DEFAULT_QUANTITY
OrDefault(v) == IF Raised(v) THEN v ELSE IF Truthy(v) THEN v ELSE DEFAULT_QUANTITY

\* get_valid_input("Enter quantity ...", float) or config.DEFAULT_QUANTITY
ReadQuantity(text) == OrDefault(get_valid_input(text, "float"))

\* Where main() is after a method returned: a method that raised would leave main().
AfterOp(r) == IF Raised(r.ret) THEN "crashed" ELSE "pause"

Init ==
    /\ pc = "start"
    /\ choice = ""
    /\ bot = Unbound
    /\ symbol = Unbound
    /\ quantity = Unbound
    /\ price = Unbound
    /\ order_id = Unbound
    /\ confirm = Unbound
    /\ current_price = Unbound
    /\ inp = NoInput
    /\ op = NoOp
    /\ nreq = 0
    /\ nops = 0

\* The effect of running method record r in this step.
Counted(r) ==
    /\ op' = r
    /\ bot' = r.self
    /\ nreq' = nreq + Len(r.sent)
    /\ nops' = nops + 1

\* ... after which main() goes on to the pause prompt.
Ran(r) == Counted(r) /\ pc' = AfterOp(r)

RanNothing == op' = NoOp /\ UNCHANGED <<bot, nreq, nops>>

\* try: bot = TradingBot() except Exception: print(...); return
Constructed(r) ==
    /\ op' = r
    /\ bot' = r.self
    /\ nreq' = nreq + Len(r.sent)
    /\ pc' = IF Raised(r.ret) THEN "init_failed" ELSE "menu"

\* current_price = bot.get_current_price(symbol), then the quantity prompt
Priced(r) ==
    /\ Counted(r)
    /\ current_price' = r.ret
    /\ pc' = IF Raised(r.ret) THEN "crashed" ELSE "qty"

\* bot = TradingBot(), inside main's try/except.
Startup ==
    /\ pc = "start"
    /\ \E outcome \in Outcomes :
          Constructed(TradingBot(outcome))
    /\ inp' = NoInput
    /\ UNCHANGED <<choice, symbol, quantity, price, order_id, confirm,
                   current_price, nops>>

\* choice '1'
ChooseBalance ==
    /\ pc = "menu"
    /\ nreq < MaxRequests
    /\ choice' = "1"
    /\ inp' = Typed("menu", <<"1">>)
    /\ \E now \in Times, outcome \in Outcomes :
          LET r == get_account_balance(bot, now, outcome)
          IN  Ran(r)
    /\ UNCHANGED <<symbol, quantity, price, order_id, confirm, current_price>>

\* choices '2' to '8' ask for the symbol first
ChooseWithSymbol ==
    /\ pc = "menu"
    /\ \E c \in {"2", "3", "4", "5", "6", "7", "8"} :
          choice' = c /\ inp' = Typed("menu", <<c>>)
    /\ pc' = "symbol"
    /\ RanNothing
    /\ UNCHANGED <<symbol, quantity, price, order_id, confirm, current_price>>

\* choice '9'
ChooseExit ==
    /\ pc = "menu"
    /\ choice' = "9"
    /\ inp' = Typed("menu", <<"9">>)
    /\ pc' = "exited"
    /\ RanNothing
    /\ UNCHANGED <<symbol, quantity, price, order_id, confirm, current_price>>

\* any other text
ChooseInvalid ==
    /\ pc = "menu"
    /\ choice' = "0"
    /\ inp' = Typed("menu", <<"0">>)
    /\ pc' = "pause"
    /\ RanNothing
    /\ UNCHANGED <<symbol, quantity, price, order_id, confirm, current_price>>

\* choice '2': the symbol, then get_current_price
SymbolThenPrice ==
    /\ pc = "symbol" /\ choice = "2"
    /\ nreq < MaxRequests
    /\ \E text \in SymbolEntries, now \in Times, outcome \in Outcomes :
          LET r == get_current_price(bot, ReadSymbol(text), now, outcome)
          IN  /\ inp' = Typed("symbol", text)
              /\ symbol' = ReadSymbol(text)
              /\ Ran(r)
    /\ UNCHANGED <<choice, quantity, price, order_id, confirm, current_price>>

\* choice '7': the symbol, then get_open_orders
SymbolThenOpenOrders ==
    /\ pc = "symbol" /\ choice = "7"
    /\ nreq < MaxRequests
    /\ \E text \in SymbolEntries, now \in Times, outcome \in Outcomes :
          LET r == get_open_orders(bot, ReadSymbol(text), now, outcome)
          IN  /\ inp' = Typed("symbol", text)
              /\ symbol' = ReadSymbol(text)
              /\ Ran(r)
    /\ UNCHANGED <<choice, quantity, price, order_id, confirm, current_price>>

\* choices '3' and '4': the symbol, then the quantity prompt
SymbolForMarket ==
    /\ pc = "symbol" /\ choice \in {"3", "4"}
    /\ \E text \in SymbolEntries :
          inp' = Typed("symbol", text) /\ symbol' = ReadSymbol(text)
    /\ pc' = "qty"
    /\ RanNothing
    /\ UNCHANGED <<choice, quantity, price, order_id, confirm, current_price>>

\* choices '5' and '6': the symbol, the current price shown, then the quantity prompt
SymbolForLimit ==
    /\ pc = "symbol" /\ choice \in {"5", "6"}
    /\ nreq < MaxRequests
    /\ \E text \in SymbolEntries, now \in Times, outcome \in Outcomes :
          LET r == get_current_price(bot, ReadSymbol(text), now, outcome)
          IN  /\ inp' = Typed("symbol", text)
              /\ symbol' = ReadSymbol(text)
              /\ Priced(r)
    /\ UNCHANGED <<choice, quantity, price, order_id, confirm>>

\* choice '8': the symbol, then the order id prompt
SymbolForCancel ==
    /\ pc = "symbol" /\ choice = "8"
    /\ \E text \in SymbolEntries :
          inp' = Typed("symbol", text) /\ symbol' = ReadSymbol(text)
    /\ pc' = "oid"
    /\ RanNothing
    /\ UNCHANGED <<choice, quantity, price, order_id, confirm, current_price>>

\* One entry at the quantity prompt of choices '3' to '6'.
EnterQuantity ==
    /\ pc = "qty"
    /\ \E text \in QuantityEntries :
          LET q == ReadQuantity(text)
          IN  /\ inp' = Typed("quantity", text)
              /\ IF Raised(q)
                 THEN pc' = "qty" /\ UNCHANGED quantity
                 ELSE /\ quantity' = q
                      /\ pc' = IF choice \in {"5", "6"} THEN "price" ELSE "confirm"
    /\ RanNothing
    /\ UNCHANGED <<choice, symbol, price, order_id, confirm, current_price>>

\* One entry at the limit price prompt of choices '5' and '6'.
EnterPrice ==
    /\ pc = "price"
    /\ \E text \in PriceEntries :
          LET p == get_valid_input(text, "float")
          IN  /\ inp' = Typed("price", text)
              /\ IF Raised(p)
                 THEN pc' = "price" /\ UNCHANGED price
                 ELSE price' = p /\ pc' = "confirm"
    /\ RanNothing
    /\ UNCHANGED <<choice, symbol, quantity, order_id, confirm, current_price>>

\* One entry at the order id prompt of choice '8'.
EnterOrderId ==
    /\ pc = "oid"
    /\ \E text \in OrderIdEntries :
          LET i == get_valid_input(text, "int")
          IN  /\ inp' = Typed("order id", text)
              /\ IF Raised(i)
                 THEN pc' = "oid" /\ UNCHANGED order_id
                 ELSE order_id' = i /\ pc' = "confirm"
    /\ RanNothing
    /\ UNCHANGED <<choice, symbol, quantity, price, confirm, current_price>>

\* The confirmation of choices '3' and '4', and the market order it allows.
ConfirmMarket ==
    /\ pc = "confirm" /\ choice \in {"3", "4"}
    /\ \E text \in ConfirmEntries :
          /\ inp' = Typed("confirm", text)
          /\ confirm' = PyStr(text)
          /\ IF IsConfirmed(text)
             THEN /\ nreq < MaxRequests
                  /\ \E now \in Times, outcome \in Outcomes :
                        LET r == place_market_order(bot, symbol,
                                                  IF choice = "3" THEN BUY ELSE SELL,
                                                  quantity, now, outcome)
                        IN  Ran(r)
             ELSE RanNothing /\ pc' = "pause"
    /\ UNCHANGED <<choice, symbol, quantity, price, order_id, current_price>>

\* The confirmation of choices '5' and '6', and the limit order it allows.
ConfirmLimit ==
    /\ pc = "confirm" /\ choice \in {"5", "6"}
    /\ \E text \in ConfirmEntries :
          /\ inp' = Typed("confirm", text)
          /\ confirm' = PyStr(text)
          /\ IF IsConfirmed(text)
             THEN /\ nreq < MaxRequests
                  /\ \E now \in Times, outcome \in Outcomes :
                        LET r == place_limit_order(bot, symbol,
                                                 IF choice = "5" THEN BUY ELSE SELL,
                                                 quantity, price, now, outcome)
                        IN  Ran(r)
             ELSE RanNothing /\ pc' = "pause"
    /\ UNCHANGED <<choice, symbol, quantity, price, order_id, current_price>>

\* The confirmation of choice '8', and the cancellation it allows.
ConfirmCancel ==
    /\ pc = "confirm" /\ choice = "8"
    /\ \E text \in ConfirmEntries :
          /\ inp' = Typed("confirm", text)
          /\ confirm' = PyStr(text)
          /\ IF IsConfirmed(text)
             THEN /\ nreq < MaxRequests
                  /\ \E now \in Times, outcome \in Outcomes :
                        LET r == cancel_order(bot, symbol, order_id, now, outcome)
                        IN  Ran(r)
             ELSE RanNothing /\ pc' = "pause"
    /\ UNCHANGED <<choice, symbol, quantity, price, order_id, current_price>>

\* "Press Enter to continue...", then the loop's next iteration; main's locals
\* keep the values the iteration left in them.
Pause ==
    /\ pc = "pause"
    /\ pc' = "menu"
    /\ inp' = Typed("pause", <<>>)
    /\ RanNothing
    /\ UNCHANGED <<choice, symbol, quantity, price, order_id, confirm, current_price>>

Next ==
    \/ Startup
    \/ ChooseBalance
    \/ ChooseWithSymbol
    \/ ChooseExit
    \/ ChooseInvalid
    \/ SymbolThenPrice
    \/ SymbolThenOpenOrders
    \/ SymbolForMarket
    \/ SymbolForLimit
    \/ SymbolForCancel
    \/ EnterQuantity
    \/ EnterPrice
    \/ EnterOrderId
    \/ ConfirmMarket
    \/ ConfirmLimit
    \/ ConfirmCancel
    \/ Pause

Spec == Init /\ [][Next]_vars

(***************************************************************************)
(* Properties.                                                             *)
(***************************************************************************)
Operations == {"get_account_balance", "get_current_price", "place_market_order",
               "place_limit_order", "get_open_orders", "cancel_order"}
SignedOperations == Operations \ {"get_current_price"}
Yes == <<"y","e","s">>
OrderUrl == BASE_URL \o "/api/v3/order"
Configured == [api_key |-> API_KEY, api_secret |-> API_SECRET, base_url |-> BASE_URL]
\* A mapping without its last item.
AllButLast(d) == PyDict(SubSeq(d.items, 1, Len(d.items) - 1))
LastKey(d) == d.items[Len(d.items)][1]
Logged(lvl, msg) == \E i \in 1..Len(op.log) : op.log[i].lvl = lvl /\ op.log[i].msg = msg

\* C1: every request of a signed operation carries exactly one timestamp and
\* exactly one signature, the signature is the last parameter, and it equals the
\* HMAC of the API secret over the other transmitted parameters, in their
\* transmitted order.
C1_SignedRequestVerifies ==
    op.name \in SignedOperations =>
        \A i \in 1..Len(op.sent) :
            /\ CountKey(op.sent[i].params, "timestamp") = 1
            /\ CountKey(op.sent[i].params, "signature") = 1
            /\ LastKey(op.sent[i].params) = "signature"
            /\ DictGet(op.sent[i].params, "signature")
                 = Hmac(API_SECRET, Urlencode(AllButLast(op.sent[i].params)))

\* A limit order was sent for a symbol whose text needs quoting.
C1_Witness ==
    /\ op.name = "place_limit_order"
    /\ Len(op.sent) = 1
    /\ symbol = PyStr(<<"A"," ","&">>)
    /\ quantity = DEFAULT_QUANTITY

\* What the specification's tagged result would be for a transport outcome.
ApiFailure(status, body) == [k |-> "Failure", status |-> status, body |-> body]

\* C2 as stated: a non-200 response yields a failure carrying the status code and
\* the body text, a network-level failure one with the synthetic status 0.
C2_FailureCarriesStatus ==
    (op.name \in Operations /\ op.sent # <<>>) =>
        IF op.outcome.kind = "exception"
        THEN op.data.k = "Failure" /\ op.data.status = 0
        ELSE op.outcome.status_code # 200 =>
                op.data = ApiFailure(op.outcome.status_code, op.outcome.text)

\* C2 as amended: _make_request returns the parsed JSON body for HTTP 200 with a
\* body that parses, and None for everything else; a non-200 status and its body
\* text go to the error log as "API Error", any exception as "Request error".
C2_JsonOrNone ==
    (op.name \in Operations /\ op.sent # <<>>) =>
        IF op.outcome.kind = "exception"
        THEN op.data = None /\ Logged("error", "Request error")
        ELSE IF op.outcome.status_code # 200
        THEN /\ op.data = None
             /\ \E i \in 1..Len(op.log) :
                   op.log[i] = Log("error", "API Error",
                                   <<PyInt(FALSE, op.outcome.status_code),
                                     PyStr(<<op.outcome.text>>)>>)
        ELSE IF op.outcome.text = T_HTML
        THEN op.data = None /\ Logged("error", "Request error")
        ELSE op.data = ResponseJson(op.outcome.text) /\ ~Logged("error", "Request error")

\* Both failure kinds have happened to return the same value.
C2_Witness ==
    /\ op.name = "cancel_order"
    /\ op.outcome = Response(400, T_ERROR)
    /\ op.data = None

\* C3: no operation raises to its caller, whatever the transport outcome, and
\* _make_request returns a value for every method string.
C3_NoOperationRaises ==
    /\ pc # "crashed"
    /\ op.name \in Operations => ~Raised(op.ret) /\ ~Raised(op.data)
    /\ op.name \in Operations =>
          \A method \in Methods \cup {"PUT", ""} :
              ~Raised(_make_request(bot, method, "/api/v3/order", None, TRUE, 1,
                                  op.outcome).ret)

\* An exception inside an operation ('balances' in 5 is a TypeError) was caught.
C3_Witness ==
    /\ op.name = "get_account_balance"
    /\ op.outcome = Response(200, T_NUMBER)
    /\ op.ret = None
    /\ Logged("error", "Error getting balance")
    /\ pc = "pause"

\* free > 0 or locked > 0
NonZero(balance) ==
    \/ Positive(ToFloat(Subscript(balance, "free")))
    \/ Positive(ToFloat(Subscript(balance, "locked")))

\* C4 as stated: on a successful account response get_account_balance returns
\* only the balances with free > 0 or locked > 0.
C4_OnlyNonZeroReturned ==
    (op.name = "get_account_balance" /\ op.ret.k = "list") =>
        \A i \in 1..Len(op.ret.items) : NonZero(op.ret.items[i])

\* C5: an operation makes at most one HTTP request, and the requests made are
\* the operations invoked plus the startup ping.
C5_OneRequestPerOperation ==
    /\ Len(op.sent) <= 1
    /\ pc # "start" => nreq = nops + 1

\* Two operations were invoked, the second over a connection that failed.
C5_Witness ==
    /\ nops = 2
    /\ op.name \in Operations
    /\ op.outcome = ConnectionFailure

\* C6: a request carries timestamp and signature exactly when its operation is a
\* signed one; the request of get_current_price carries only symbol.
C6_SignedIffSignedOperation ==
    \A i \in 1..Len(op.sent) :
        /\ HasKey(op.sent[i].params, "timestamp") <=> op.name \in SignedOperations
        /\ HasKey(op.sent[i].params, "signature") <=> op.name \in SignedOperations
        /\ op.name = "get_current_price" =>
              /\ Keys(op.sent[i].params) = <<"symbol">>
              /\ op.sent[i].url = BASE_URL \o "/api/v3/ticker/price"
              /\ op.sent[i].method = "GET"

C6_Witness ==
    /\ op.name = "get_current_price"
    /\ Len(op.sent) = 1
    /\ choice = "5"

\* C7: a request to /api/v3/order is made only by the step that read 'yes' (in
\* any letter case) at the confirmation prompt; any other answer makes no request.
C7_OrderOnlyAfterYes ==
    /\ \A i \in 1..Len(op.sent) :
          op.sent[i].url = OrderUrl => inp.prompt = "confirm" /\ Lower(inp.text) = Yes
    /\ (inp.prompt = "confirm" /\ Lower(inp.text) # Yes) => op = NoOp /\ pc = "pause"

C7_Witness ==
    /\ op.name = "cancel_order"
    /\ Len(op.sent) = 1
    /\ op.sent[1].url = OrderUrl
    /\ inp = Typed("confirm", <<"Y","E","S">>)

\* The prompts of the running CLI.
Prompts == {"menu", "symbol", "qty", "price", "oid", "confirm", "pause"}

\* C8: a failed connection test still reaches the menu; every operation, whatever
\* its outcome, leaves the process at a prompt of the loop; the pause prompt
\* leads back to the menu; the process ends only by choice '9'.
C8_LoopSurvivesFailures ==
    [][ /\ pc = "start" => pc' = "menu"
        /\ pc = "pause" => pc' = "menu"
        /\ (op' # NoOp /\ pc # "start") => pc' \in {"pause", "qty"}
        /\ pc' \notin Prompts => (pc = "menu" /\ choice' = "9" /\ pc' = "exited")
      ]_vars

\* The menu is up although the connection test failed.
C8_Witness ==
    /\ pc = "menu"
    /\ op.name = "_test_connection"
    /\ op.outcome = ConnectionFailure
    /\ op.ret = PyBool(FALSE)

\* C9 as stated: the quantity prompt ends with the number typed, and with
\* DEFAULT_QUANTITY for an empty entry.
C9_QuantityTypedOrDefault ==
    inp.prompt = "quantity" =>
        IF inp.text = <<>>
        THEN pc # "qty" /\ quantity = DEFAULT_QUANTITY
        ELSE ~Raised(ParseFloat(inp.text)) =>
                pc # "qty" /\ quantity = ParseFloat(inp.text)

\* C10: the message signed for a request holds no signature and one timestamp,
\* put last (a key left over from an earlier request would keep its earlier
\* place), and the client's fields stay what the constructor set.
C10_RequestsIndependent ==
    /\ pc # "start" => bot = Configured
    /\ \A i \in 1..Len(op.signedMsg) :
          /\ ~HasKey(op.signedMsg[i], "signature")
          /\ CountKey(op.signedMsg[i], "timestamp") = 1
          /\ LastKey(op.signedMsg[i]) = "timestamp"
          /\ Len(op.sent) = 1
          /\ op.signedMsg[i] = AllButLast(op.sent[1].params)

\* A signed request after earlier operations.
C10_Witness ==
    /\ nops = 2
    /\ op.name = "place_market_order"
    /\ Len(op.signedMsg) = 1

====
